---- MODULE Spec2Model ----
(***************************************************************************)
(* Capture-the-flag rule engine of pacai/bin/capture.py.                   *)
(*                                                                         *)
(* A GameState is modelled as an object that refers to heap objects: the   *)
(* Configuration of every agent and the data of its food Grid are          *)
(* references, because the copy constructor shares them between a state    *)
(* and its successor.  Coordinates are whole numbers: every move has       *)
(* speed 1.0, so the float positions of the program are integral.          *)
(* Tolerances (0.9, 0.7) are compared in tenths.                           *)
(***************************************************************************)
EXTENDS FiniteSets, Integers, Sequences, TLC

VARIABLES layout, confs, grids, state, outcome, obs, game, answer

vars == <<layout, confs, grids, state, outcome, obs, game, answer>>

(***************************************************************************)
(* Program constants                                                      *)
(***************************************************************************)
KILL_POINTS == 0
SONAR_NOISE_RANGE == 13
SONAR_NOISE_VALUES == {i - ((SONAR_NOISE_RANGE - 1) \div 2) : i \in 0..(SONAR_NOISE_RANGE - 1)}
SIGHT_RANGE == 5
MIN_FOOD == 2
SCARED_TIME == 40
COLLISION_TOLERANCE == 7
EAT_TOLERANCE == 9

(***************************************************************************)
(* Bounds of the model                                                    *)
(***************************************************************************)
\* MatchLength, MatchLengthObs and MatchLengthSight are the numbers of
\* generateSuccessor calls followed from a new state; the last MaxOvertime
\* of them are made after the time of the match has run out (timeleft goes
\* below 0: line 111 takes 1 off whatever is left)
MatchLength == 5
MatchLengthObs == 3
MatchLengthRun == 4
MatchLengthSight == 1
MaxDistance == 12
MaxOvertime == 1

\* The largest value tried for the kill bonus KILL_POINTS
MaxKillPoints == 2

(***************************************************************************)
(* Values standing for Python's None                                       *)
(***************************************************************************)
None == <<>>
NoRef == 0
NoAgent == -1

Directions == {"North", "South", "East", "West", "Stop"}

(***************************************************************************)
(* Layouts.  A layout is what pacai.core.layout parses from the text grid: *)
(* width, height, walls, food, capsules and the numbered agent starts in   *)
(* the order of their numbers.  Cells are <<x, y>>, x = 0 is the left      *)
(* border column and y = 0 the bottom border row.                          *)
(*                                                                         *)
(*   LayoutDuel       LayoutTrio       LayoutCorridor                      *)
(*   %%%%%%%%         %%%%%%           %%%%%%%%%                           *)
(*   %.o1.o.%         %..32%           %. 1 o2.%                           *)
(*   %.. o.2%         % 1 o%           %%%%%%%%%                           *)
(*   %%%%%%%%         %%%%%%                                               *)
(***************************************************************************)
Border(w, h) == {c \in (0..(w - 1)) \X (0..(h - 1)) :
                    c[1] = 0 \/ c[1] = w - 1 \/ c[2] = 0 \/ c[2] = h - 1}

LayoutDuel ==
    [width |-> 8, height |-> 4,
     walls |-> Border(8, 4),
     food |-> {<<1, 1>>, <<2, 1>>, <<1, 2>>, <<4, 2>>, <<5, 1>>, <<6, 2>>},
     capsules |-> <<<<4, 1>>, <<2, 2>>, <<5, 2>>>>,
     agentPositions |-> <<<<3, 2>>, <<6, 1>>>>]

LayoutTrio ==
    [width |-> 6, height |-> 4,
     walls |-> Border(6, 4),
     food |-> {<<1, 2>>, <<2, 2>>},
     capsules |-> <<<<4, 1>>>>,
     agentPositions |-> <<<<2, 1>>, <<4, 2>>, <<3, 2>>>>]

LayoutCorridor ==
    [width |-> 9, height |-> 3,
     walls |-> Border(9, 3),
     food |-> {<<1, 1>>, <<7, 1>>},
     capsules |-> <<<<5, 1>>>>,
     agentPositions |-> <<<<3, 1>>, <<6, 1>>>>]

\* A corridor of ten columns: two red agents, one at each end of the red
\* half, and one blue agent
\*   %%%%%%%%%%
\*   %1.2  . 3%
\*   %%%%%%%%%%
LayoutSight ==
    [width |-> 10, height |-> 3, walls |-> Border(10, 3),
     food |-> {<<2, 1>>, <<7, 1>>},
     capsules |-> <<>>,
     agentPositions |-> <<<<1, 1>>, <<4, 1>>, <<8, 1>>>>]

\* A layout with food and a capsule on both sides of the midline, next to
\* it, so that a defender crosses onto them with its first step over:
\*   %%%%%%
\*   %.oo2%
\*   %1...%
\*   %%%%%%
LayoutMidline ==
    [width |-> 6, height |-> 4, walls |-> Border(6, 4),
     food |-> {<<1, 2>>, <<2, 1>>, <<3, 1>>, <<4, 1>>},
     capsules |-> <<<<2, 2>>, <<3, 2>>>>,
     agentPositions |-> <<<<1, 1>>, <<4, 2>>>>]

\* LayoutDuel with a wall inside, on the cell below the red agent's start
LayoutWalled == [LayoutDuel EXCEPT !.walls = @ \cup {<<3, 1>>}]

Layouts == {LayoutDuel, LayoutTrio}

(***************************************************************************)
(* Geometry helpers of pacai.util.util and pacai.core.game                 *)
(***************************************************************************)
Abs(n) == IF n < 0 THEN -n ELSE n

manhattanDistance(xy1, xy2) == Abs(xy1[1] - xy2[1]) + Abs(xy1[2] - xy2[2])

\* int(x + 0.5) on a whole number x, computed as floor((2x + 1) / 2)
nearestPoint(pos) == <<(2 * pos[1] + 1) \div 2, (2 * pos[2] + 1) \div 2>>

directionToVector(action) ==
    CASE action = "North" -> <<0, 1>>
      [] action = "South" -> <<0, -1>>
      [] action = "East" -> <<1, 0>>
      [] action = "West" -> <<-1, 0>>
      [] OTHER -> <<0, 0>>

\* Actions.getPossibleActions at a grid point: every direction, Stop
\* included, whose neighbouring cell is not a wall
getPossibleActions(pos, walls) ==
    {d \in Directions :
        <<pos[1] + directionToVector(d)[1], pos[2] + directionToVector(d)[2]>> \notin walls}

(***************************************************************************)
(* Heap: Configuration objects (confs) and Grid data (grids).  A free      *)
(* slot holds None; a new object takes the lowest free slot.               *)
(***************************************************************************)
NumAgentsOf(l) == Len(l.agentPositions)
MaxAgents == 3
Refs == 1..(4 * MaxAgents + 1)
GridRefs == 1..4
\* the Grid object the initial state was built with
RootGrid == 3

\* Free slots: None in confs, NoGrid in grids
NoGrid == {None}

Alloc(heap, free) == CHOOSE r \in DOMAIN heap : heap[r] = free /\ \A q \in DOMAIN heap : heap[q] = free => r <= q

\* The element of a one-element set
Only(S) == CHOOSE x \in S : TRUE

\* A world is a GameState under construction together with the heap it
\* reads and writes; err is set when an exception left the call.
World(st, c, g) == [st |-> st, confs |-> c, grids |-> g, err |-> FALSE]

Agents(st) == DOMAIN st.agentStates

\* AgentState.getPosition
getPosition(w, agentState) ==
    IF agentState.configuration = NoRef THEN None ELSE w.confs[agentState.configuration]

\* GameState.isRed
isRed(l, pos) == pos[1] < l.width \div 2

isOnRedTeam(st, agentIndex) == st.teams[agentIndex]
getRedTeamIndices(st) == st.redTeam
getBlueTeamIndices(st) == st.blueTeam

halfGrid(l, grid, red) ==
    LET halfway == l.width \div 2
    IN {c \in grid : IF red THEN c[1] \in 0..(halfway - 1) ELSE c[1] \in halfway..(l.width - 1)}

halfList(l, caps, red) ==
    LET halfway == l.width \div 2
        Keep(c) == IF red THEN c[1] <= halfway ELSE c[1] > halfway
    IN SelectSeq(caps, Keep)

getRedFood(l, w) == halfGrid(l, w.grids[w.st.food], TRUE)
getBlueFood(l, w) == halfGrid(l, w.grids[w.st.food], FALSE)
getRedCapsules(l, w) == halfList(l, w.st.capsules, TRUE)
getBlueCapsules(l, w) == halfList(l, w.st.capsules, FALSE)

InSeq(x, s) == \E k \in 1..Len(s) : s[k] = x

\* list.remove: drops the first occurrence
RemoveFirst(s, x) ==
    LET k == CHOOSE j \in 1..Len(s) : s[j] = x /\ \A q \in 1..(j - 1) : s[q] # x
    IN [j \in 1..(Len(s) - 1) |-> IF j < k THEN s[j] ELSE s[j + 1]]

(***************************************************************************)
(* GameState construction and copying                                      *)
(***************************************************************************)
\* GameStateData.initialize and GameState.initialize on a fresh heap: agent
\* i's start Configuration is object i + 1 and is also its configuration;
\* the food Grid is a copy of the layout's (grid object RootGrid).
InitialConfs(l) ==
    [r \in Refs |-> IF r <= NumAgentsOf(l) THEN l.agentPositions[r] ELSE None]

InitialGrids(l) == [r \in GridRefs |-> IF r = RootGrid THEN l.food ELSE NoGrid]

initialize(l, length) ==
    LET n == NumAgentsOf(l)
        positions == [i \in 0..(n - 1) |-> l.agentPositions[i + 1]]
        Blue(i) == ~isRed(l, positions[i - 1])
        Red(i) == isRed(l, positions[i - 1])
        indices == [k \in 1..n |-> k]
    IN [food |-> RootGrid,
        capsules |-> l.capsules,
        agentStates |-> [i \in 0..(n - 1) |->
                            [configuration |-> i + 1, start |-> i + 1,
                             isPacman |-> FALSE, scaredTimer |-> 0]],
        score |-> 0,
        scoreChange |-> 0,
        timeleft |-> length,
        win |-> FALSE,
        foodEaten |-> None,
        capsuleEaten |-> None,
        agentMoved |-> NoAgent,
        blueTeam |-> [k \in 1..Len(SelectSeq(indices, Blue)) |-> SelectSeq(indices, Blue)[k] - 1],
        redTeam |-> [k \in 1..Len(SelectSeq(indices, Red)) |-> SelectSeq(indices, Red)[k] - 1],
        teams |-> [i \in 0..(n - 1) |-> isRed(l, positions[i])],
        agentDistances |-> <<>>]

\* GameState(prevState): GameStateData(prevState.data) shares the food data
\* and the Configuration objects (AgentState.copy), copies the capsule list
\* and the agent records, and resets the per-step markers.
GameStateCopy(prevState) ==
    [prevState EXCEPT !.foodEaten = None,
                      !.capsuleEaten = None,
                      !.agentMoved = NoAgent,
                      !.win = FALSE,
                      !.scoreChange = 0]

\* The value of a state: what an accessor or == can read of it.
Value(st, c, g) ==
    [food |-> g[st.food],
     capsules |-> st.capsules,
     positions |-> [i \in Agents(st) |->
                      IF st.agentStates[i].configuration = NoRef THEN None
                      ELSE c[st.agentStates[i].configuration]],
     starts |-> [i \in Agents(st) |-> c[st.agentStates[i].start]],
     isPacman |-> [i \in Agents(st) |-> st.agentStates[i].isPacman],
     scaredTimer |-> [i \in Agents(st) |-> st.agentStates[i].scaredTimer],
     score |-> st.score,
     timeleft |-> st.timeleft,
     win |-> st.win,
     foodEaten |-> st.foodEaten,
     capsuleEaten |-> st.capsuleEaten,
     agentMoved |-> st.agentMoved,
     teams |-> st.teams,
     redTeam |-> st.redTeam,
     blueTeam |-> st.blueTeam]

(***************************************************************************)
(* AgentRules                                                              *)
(***************************************************************************)
getLegalActions(l, w, agentIndex) ==
    getPossibleActions(getPosition(w, w.st.agentStates[agentIndex]), l.walls)

\* Variant of eatFood that clears the cell in the grid object the
\* predecessor shares, without line 480's copy
eatFoodInPlace(l, position, w, red) ==
    LET score == IF red THEN 1 ELSE -1
        eaten == [w EXCEPT !.grids[w.st.food] = @ \ {position},
                           !.st.scoreChange = @ + score,
                           !.st.foodEaten = position]
        won == (red /\ Cardinality(getBlueFood(l, eaten)) = MIN_FOOD)
                 \/ (~red /\ Cardinality(getRedFood(l, eaten)) = MIN_FOOD)
    IN IF position \in w.grids[w.st.food]
       THEN [eaten EXCEPT !.st.win = IF won THEN TRUE ELSE @]
       ELSE w

\* Variant of eatFood whose copy is taken from the layout's food instead of
\* the state's
eatFoodFromLayout(l, position, w, red) ==
    LET score == IF red THEN 1 ELSE -1
        newGrid == Alloc(w.grids, NoGrid)
        eaten == [w EXCEPT !.grids[newGrid] = l.food \ {position},
                           !.st.food = newGrid,
                           !.st.scoreChange = @ + score,
                           !.st.foodEaten = position]
        won == (red /\ Cardinality(getBlueFood(l, eaten)) = MIN_FOOD)
                 \/ (~red /\ Cardinality(getRedFood(l, eaten)) = MIN_FOOD)
    IN IF position \in w.grids[w.st.food]
       THEN [eaten EXCEPT !.st.win = IF won THEN TRUE ELSE @]
       ELSE w

\* Variant of eatFood that compares the count with <= MIN_FOOD at line 483
eatFoodWinAtMost(l, position, w, red) ==
    LET score == IF red THEN 1 ELSE -1
        newGrid == Alloc(w.grids, NoGrid)
        eaten == [w EXCEPT !.grids[newGrid] = w.grids[w.st.food] \ {position},
                           !.st.food = newGrid,
                           !.st.scoreChange = @ + score,
                           !.st.foodEaten = position]
        won == (red /\ Cardinality(getBlueFood(l, eaten)) <= MIN_FOOD)
                 \/ (~red /\ Cardinality(getRedFood(l, eaten)) <= MIN_FOOD)
    IN IF position \in w.grids[w.st.food]
       THEN [eaten EXCEPT !.st.win = IF won THEN TRUE ELSE @]
       ELSE w

\* consume, lines 474-484: the food at position, if any, is eaten
eatFood(l, position, w, red) ==
    LET score == IF red THEN 1 ELSE -1
        newGrid == Alloc(w.grids, NoGrid)
        eaten == [w EXCEPT !.grids[newGrid] = w.grids[w.st.food] \ {position},
                           !.st.food = newGrid,
                           !.st.scoreChange = @ + score,
                           !.st.foodEaten = position]
        won == (red /\ Cardinality(getBlueFood(l, eaten)) = MIN_FOOD)
                 \/ (~red /\ Cardinality(getRedFood(l, eaten)) = MIN_FOOD)
    IN IF position \in w.grids[w.st.food]
       THEN [eaten EXCEPT !.st.win = IF won THEN TRUE ELSE @]
       ELSE w

\* consume, lines 486-497: the capsule at position, if it is one the team
\* may eat, is eaten and the other team is scared
eatCapsule(l, position, w, red) ==
    LET myCapsules == IF red THEN getBlueCapsules(l, w) ELSE getRedCapsules(l, w)
        otherTeam == IF red THEN getBlueTeamIndices(w.st) ELSE getRedTeamIndices(w.st)
    IN IF InSeq(position, myCapsules)
       THEN [w EXCEPT !.st.capsules = RemoveFirst(@, position),
                      !.st.capsuleEaten = position,
                      !.st.agentStates = [i \in DOMAIN @ |->
                            IF InSeq(i, otherTeam)
                            THEN [@[i] EXCEPT !.scaredTimer = SCARED_TIME]
                            ELSE @[i]]]
       ELSE w

consume(l, position, w, red) == eatCapsule(l, position, eatFood(l, position, w, red), red)

\* Variant of move that writes the new position into the Configuration the
\* agent already has
moveInPlace(w, action, agentIndex) ==
    LET vector == directionToVector(action)
        conf == w.st.agentStates[agentIndex].configuration
        oldPos == w.confs[conf]
    IN [w EXCEPT !.confs[conf] = <<oldPos[1] + vector[1], oldPos[2] + vector[2]>>]

\* Variant of move at twice the speed
moveTwoCells(w, action, agentIndex) ==
    LET vector == directionToVector(action)
        oldPos == w.confs[w.st.agentStates[agentIndex].configuration]
        newConf == Alloc(w.confs, None)
    IN [w EXCEPT !.confs[newConf] = <<oldPos[1] + 2 * vector[1], oldPos[2] + 2 * vector[2]>>,
                 !.st.agentStates[agentIndex].configuration = newConf]

\* applyAction, lines 453-459: the agent gets a new Configuration
move(w, action, agentIndex) ==
    LET vector == directionToVector(action)
        oldPos == w.confs[w.st.agentStates[agentIndex].configuration]
        newConf == Alloc(w.confs, None)
    IN [w EXCEPT !.confs[newConf] = <<oldPos[1] + vector[1], oldPos[2] + vector[2]>>,
                 !.st.agentStates[agentIndex].configuration = newConf]

\* Variant of eat that decides by the role the agent has on the cell it
\* moved to, not by the role it had before the move
eatByNewRole(l, w, agentIndex) ==
    LET agentState == w.st.agentStates[agentIndex]
        next == getPosition(w, agentState)
        nearest == nearestPoint(next)
    IN IF (isOnRedTeam(w.st, agentIndex) # isRed(l, nearest))
          /\ 10 * manhattanDistance(nearest, next) <= EAT_TOLERANCE
       THEN consume(l, nearest, w, isOnRedTeam(w.st, agentIndex))
       ELSE w

\* Variant of eat that lets every agent eat, whatever its role
eatAlways(l, w, agentIndex) ==
    LET agentState == w.st.agentStates[agentIndex]
        next == getPosition(w, agentState)
        nearest == nearestPoint(next)
    IN IF 10 * manhattanDistance(nearest, next) <= EAT_TOLERANCE
       THEN consume(l, nearest, w, isOnRedTeam(w.st, agentIndex))
       ELSE w

\* applyAction, lines 461-465: an agent that is on offense eats
eat(l, w, agentIndex) ==
    LET agentState == w.st.agentStates[agentIndex]
        next == getPosition(w, agentState)
        nearest == nearestPoint(next)
    IN IF agentState.isPacman /\ 10 * manhattanDistance(nearest, next) <= EAT_TOLERANCE
       THEN consume(l, nearest, w, isOnRedTeam(w.st, agentIndex))
       ELSE w

\* Variant of changeAgentType that takes every agent for a red one
changeAgentTypeByHalf(l, w, agentIndex) ==
    LET next == getPosition(w, w.st.agentStates[agentIndex])
    IN IF next = nearestPoint(next)
       THEN [w EXCEPT !.st.agentStates[agentIndex].isPacman = ~isRed(l, next)]
       ELSE w

\* Variant of changeAgentType that also moves the agent to the team of the
\* half it stands on
changeAgentTypeAndTeam(l, w, agentIndex) ==
    LET next == getPosition(w, w.st.agentStates[agentIndex])
    IN IF next = nearestPoint(next)
       THEN [w EXCEPT !.st.agentStates[agentIndex].isPacman =
                            (isOnRedTeam(w.st, agentIndex) # isRed(l, next)),
                      !.st.teams[agentIndex] = isRed(l, next)]
       ELSE w

\* applyAction, lines 467-469: the role follows the half the agent is on
changeAgentType(l, w, agentIndex) ==
    LET next == getPosition(w, w.st.agentStates[agentIndex])
    IN IF next = nearestPoint(next)
       THEN [w EXCEPT !.st.agentStates[agentIndex].isPacman =
                            (isOnRedTeam(w.st, agentIndex) # isRed(l, next))]
       ELSE w

\* Variant of applyAction without the legality check of lines 449-451
applyActionUnchecked(l, w, action, agentIndex) ==
    changeAgentType(l, eat(l, move(w, action, agentIndex), agentIndex), agentIndex)

\* applyAction, lines 445-470
applyAction(l, w, action, agentIndex) ==
    IF action \notin getLegalActions(l, w, agentIndex)
    THEN [w EXCEPT !.err = TRUE]
    ELSE changeAgentType(l, eat(l, move(w, action, agentIndex), agentIndex), agentIndex)

\* Variant of decrementTimer that counts down the timers of the acting
\* agent's whole team
decrementTimerOfTeam(w, agentIndex) ==
    LET agentState == w.st.agentStates[agentIndex]
        timer == agentState.scaredTimer
        snapped == IF timer = 1
                   THEN [w EXCEPT !.confs[agentState.configuration] = nearestPoint(@)]
                   ELSE w
    IN [snapped EXCEPT !.st.agentStates = [j \in DOMAIN @ |->
                            IF w.st.teams[j] = w.st.teams[agentIndex]
                            THEN [@[j] EXCEPT !.scaredTimer = IF @ - 1 > 0 THEN @ - 1 ELSE 0]
                            ELSE @[j]]]

\* Variant of decrementTimer that counts down the timer of every agent
decrementTimerOfAll(w, agentIndex) ==
    LET agentState == w.st.agentStates[agentIndex]
        timer == agentState.scaredTimer
        snapped == IF timer = 1
                   THEN [w EXCEPT !.confs[agentState.configuration] = nearestPoint(@)]
                   ELSE w
    IN [snapped EXCEPT !.st.agentStates = [j \in DOMAIN @ |->
                            [@[j] EXCEPT !.scaredTimer = IF @ - 1 > 0 THEN @ - 1 ELSE 0]]]

\* decrementTimer, lines 501-506
decrementTimer(w, agentIndex) ==
    LET agentState == w.st.agentStates[agentIndex]
        timer == agentState.scaredTimer
        snapped == IF timer = 1
                   THEN [w EXCEPT !.confs[agentState.configuration] = nearestPoint(@)]
                   ELSE w
    IN [snapped EXCEPT !.st.agentStates[agentIndex].scaredTimer =
                            IF timer - 1 > 0 THEN timer - 1 ELSE 0]

\* Variant of Capture that leaves the victim's role as it was
CaptureKeepsRole(w, victim, score) ==
    LET start == w.st.agentStates[victim].start
    IN [w EXCEPT !.st.scoreChange = @ + score,
                 !.st.agentStates[victim].configuration = start,
                 !.st.agentStates[victim].scaredTimer = 0]

\* Variant of Capture that leaves the victim's scared timer running
CaptureKeepsTimer(w, victim, score) ==
    LET start == w.st.agentStates[victim].start
    IN [w EXCEPT !.st.scoreChange = @ + score,
                 !.st.agentStates[victim].isPacman = FALSE,
                 !.st.agentStates[victim].configuration = start]

\* The body of one capture: the agent `victim' goes back to its start
\* object, becomes a defender and loses its timer; `score' is added to the
\* pending score change.
Capture(w, victim, score) ==
    LET start == w.st.agentStates[victim].start
    IN [w EXCEPT !.st.scoreChange = @ + score,
                 !.st.agentStates[victim].isPacman = FALSE,
                 !.st.agentStates[victim].configuration = start,
                 !.st.agentStates[victim].scaredTimer = 0]

\* Loop of lines 515-537: the acting agent was on offense when the scan
\* began; killPoints is the value of the module constant KILL_POINTS
RECURSIVE ScanGhostsWith(_, _, _, _, _)
ScanGhostsWith(killPoints, w, agentIndex, otherTeam, k) ==
    IF k > Len(otherTeam) THEN w
    ELSE LET index == otherTeam[k]
             agentState == w.st.agentStates[agentIndex]
             otherAgentState == w.st.agentStates[index]
             ghostPosition == getPosition(w, otherAgentState)
             score == IF isOnRedTeam(w.st, agentIndex) THEN -killPoints ELSE killPoints
         IN IF otherAgentState.isPacman \/ ghostPosition = None
            THEN ScanGhostsWith(killPoints, w, agentIndex, otherTeam, k + 1)
            ELSE IF 10 * manhattanDistance(ghostPosition, getPosition(w, agentState)) <= COLLISION_TOLERANCE
                 THEN IF otherAgentState.scaredTimer <= 0
                      THEN ScanGhostsWith(killPoints, Capture(w, agentIndex, score), agentIndex, otherTeam, k + 1)
                      ELSE ScanGhostsWith(killPoints, Capture(w, index, score), agentIndex, otherTeam, k + 1)
                 ELSE ScanGhostsWith(killPoints, w, agentIndex, otherTeam, k + 1)

ScanGhosts(w, agentIndex, otherTeam, k) ==
    ScanGhostsWith(KILL_POINTS, w, agentIndex, otherTeam, k)

\* Loop of lines 539-561: the acting agent was a defender when the scan
\* began; killPoints is the value of the module constant KILL_POINTS
RECURSIVE ScanPacmenWith(_, _, _, _, _)
ScanPacmenWith(killPoints, w, agentIndex, otherTeam, k) ==
    IF k > Len(otherTeam) THEN w
    ELSE LET index == otherTeam[k]
             agentState == w.st.agentStates[agentIndex]
             otherAgentState == w.st.agentStates[index]
             pacPos == getPosition(w, otherAgentState)
             scoreCatch == IF ~isOnRedTeam(w.st, agentIndex) THEN -killPoints ELSE killPoints
             scoreCaught == IF isOnRedTeam(w.st, agentIndex) THEN -killPoints ELSE killPoints
         IN IF ~otherAgentState.isPacman \/ pacPos = None
            THEN ScanPacmenWith(killPoints, w, agentIndex, otherTeam, k + 1)
            ELSE IF 10 * manhattanDistance(pacPos, getPosition(w, agentState)) <= COLLISION_TOLERANCE
                 THEN IF agentState.scaredTimer <= 0
                      THEN ScanPacmenWith(killPoints, Capture(w, index, scoreCatch), agentIndex, otherTeam, k + 1)
                      ELSE ScanPacmenWith(killPoints, Capture(w, agentIndex, scoreCaught), agentIndex, otherTeam, k + 1)
                 ELSE ScanPacmenWith(killPoints, w, agentIndex, otherTeam, k + 1)

ScanPacmen(w, agentIndex, otherTeam, k) ==
    ScanPacmenWith(KILL_POINTS, w, agentIndex, otherTeam, k)

\* Variant of checkDeath that runs both scans one after the other, each
\* under its own test of the acting agent's role
checkDeathBothBranches(killPoints, w, agentIndex) ==
    Only({IF first.st.agentStates[agentIndex].isPacman
          THEN first
          ELSE ScanPacmenWith(killPoints, first, agentIndex,
                              IF isOnRedTeam(w.st, agentIndex)
                              THEN getBlueTeamIndices(w.st) ELSE getRedTeamIndices(w.st), 1) :
          first \in {IF w.st.agentStates[agentIndex].isPacman
                     THEN ScanGhostsWith(killPoints, w, agentIndex,
                                         IF isOnRedTeam(w.st, agentIndex)
                                         THEN getBlueTeamIndices(w.st) ELSE getRedTeamIndices(w.st), 1)
                     ELSE w}})

\* checkDeath, lines 508-562, for a given value of KILL_POINTS
checkDeathWith(killPoints, w, agentIndex) ==
    LET agentState == w.st.agentStates[agentIndex]
        otherTeam == IF isOnRedTeam(w.st, agentIndex)
                     THEN getBlueTeamIndices(w.st) ELSE getRedTeamIndices(w.st)
    IN IF agentState.isPacman
       THEN ScanGhostsWith(killPoints, w, agentIndex, otherTeam, 1)
       ELSE ScanPacmenWith(killPoints, w, agentIndex, otherTeam, 1)

\* Variant of checkDeath that goes on to resolve the collisions of the
\* agent that acts next
checkDeathAndNext(w, agentIndex) ==
    checkDeathWith(KILL_POINTS, checkDeathWith(KILL_POINTS, w, agentIndex),
                   (agentIndex + 1) % Cardinality(DOMAIN w.st.agentStates))

\* checkDeath, lines 508-562, with KILL_POINTS as the module has it
checkDeath(w, agentIndex) == checkDeathWith(KILL_POINTS, w, agentIndex)

\* GameState.generateSuccessor on the state object self; err is set when
\* applyAction raised and no successor exists.
generateSuccessor(l, self, c, g, agentIndex, action) ==
    LET copied == World(GameStateCopy(self), c, g)
        applied == applyAction(l, copied, action, agentIndex)
        checked == checkDeath(applied, agentIndex)
        timed == decrementTimer(checked, agentIndex)
    IN IF applied.err THEN applied
       ELSE [timed EXCEPT !.st.agentMoved = agentIndex,
                          !.st.score = @ + timed.st.scoreChange,
                          !.st.timeleft = self.timeleft - 1]

\* AgentRules.placeGhost, lines 564-565: the agent's state is made to refer
\* to its start Configuration, in the state object it is called on; nothing
\* else is touched.  No code of the repository calls it.
placeGhost(w, agentIndex) ==
    [w EXCEPT !.st.agentStates[agentIndex].configuration =
                    w.st.agentStates[agentIndex].start]

(***************************************************************************)
(* Observations                                                            *)
(***************************************************************************)
\* GameState.deepCopy: a copy with its own food Grid; the markers of the
\* last step are carried over, the win flag and the pending score are not.
deepCopy(w) ==
    LET newGrid == Alloc(w.grids, NoGrid)
    IN [w EXCEPT !.grids[newGrid] = w.grids[w.st.food],
                 !.st = [GameStateCopy(w.st) EXCEPT !.food = newGrid,
                                                    !.agentMoved = w.st.agentMoved,
                                                    !.foodEaten = w.st.foodEaten,
                                                    !.capsuleEaten = w.st.capsuleEaten]]

\* noisyDistance with the drawn offset made explicit
noisyDistance(pos1, pos2, offset) == manhattanDistance(pos1, pos2) + offset

\* Variant of getDistanceProb that takes the noise for 0 .. 12
getDistanceProbOneSided(trueDistance, noisy) ==
    IF (noisy - trueDistance) \in 0..(SONAR_NOISE_RANGE - 1)
    THEN <<1, SONAR_NOISE_RANGE>> ELSE <<0, 1>>

\* GameState.getDistanceProb, lines 208-213; the result is the fraction
\* <<numerator, denominator>>
getDistanceProb(trueDistance, noisy) ==
    IF (noisy - trueDistance) \in SONAR_NOISE_VALUES THEN <<1, SONAR_NOISE_RANGE>> ELSE <<0, 1>>

\* What a makeObservation call leaves behind: the state object it returns
\* (st) with the heap, and the state object it was called on (self), which
\* the caller still holds
Observed(w, self) ==
    [st |-> w.st, confs |-> w.confs, grids |-> w.grids, err |-> w.err, self |-> self]

\* Variant of makeObservation that works on the state it is called on
\* instead of a deep copy of it (state = self at line 258): the distances
\* and the redaction are written to the caller's state, which is returned
makeObservationOnSelf(self, c, g, index, draws) ==
    Only({LET pos == getPosition(copied, copied.st.agentStates[index])
              distances == [i \in 1..Cardinality(Agents(self)) |->
                              noisyDistance(pos, getPosition(copied, copied.st.agentStates[i - 1]), draws[i - 1])]
              team == IF InSeq(index, self.blueTeam) THEN self.blueTeam ELSE self.redTeam
              otherTeam == IF InSeq(index, self.blueTeam) THEN self.redTeam ELSE self.blueTeam
              Seen(enemy) ==
                  \E k \in 1..Len(team) :
                      manhattanDistance(getPosition(copied, copied.st.agentStates[enemy]),
                                        getPosition(copied, copied.st.agentStates[team[k]])) <= SIGHT_RANGE
          IN Only({Observed(o, o.st) :
                     o \in {[copied EXCEPT !.st.agentDistances = distances,
                                           !.st.agentStates = [i \in DOMAIN @ |->
                                                 IF InSeq(i, otherTeam) /\ ~Seen(i)
                                                 THEN [@[i] EXCEPT !.configuration = NoRef]
                                                 ELSE @[i]]]}}) :
            copied \in {World(self, c, g)}})

\* Variant of makeObservation in which only the observer itself can see an
\* opponent
makeObservationOwnSight(self, c, g, index, draws) ==
    LET copied == deepCopy(World(self, c, g))
        pos == getPosition(copied, copied.st.agentStates[index])
        distances == [i \in 1..Cardinality(Agents(self)) |->
                        noisyDistance(pos, getPosition(copied, copied.st.agentStates[i - 1]), draws[i - 1])]
        otherTeam == IF InSeq(index, self.blueTeam) THEN self.redTeam ELSE self.blueTeam
        Seen(enemy) ==
            manhattanDistance(getPosition(copied, copied.st.agentStates[enemy]), pos) <= SIGHT_RANGE
    IN Observed([copied EXCEPT !.st.agentDistances = distances,
                               !.st.agentStates = [i \in DOMAIN @ |->
                                     IF InSeq(i, otherTeam) /\ ~Seen(i)
                                     THEN [@[i] EXCEPT !.configuration = NoRef]
                                     ELSE @[i]]],
                self)

\* Variant of makeObservation that redacts by clearing the position held by
\* the Configuration object, which the copy shares with the observed state
makeObservationInPlace(self, c, g, index, draws) ==
    LET copied == deepCopy(World(self, c, g))
        pos == getPosition(copied, copied.st.agentStates[index])
        distances == [i \in 1..Cardinality(Agents(self)) |->
                        noisyDistance(pos, getPosition(copied, copied.st.agentStates[i - 1]), draws[i - 1])]
        team == IF InSeq(index, self.blueTeam) THEN self.blueTeam ELSE self.redTeam
        otherTeam == IF InSeq(index, self.blueTeam) THEN self.redTeam ELSE self.blueTeam
        Seen(enemy) ==
            \E k \in 1..Len(team) :
                manhattanDistance(getPosition(copied, copied.st.agentStates[enemy]),
                                  getPosition(copied, copied.st.agentStates[team[k]])) <= SIGHT_RANGE
        hiddenRefs == {copied.st.agentStates[i].configuration :
                          i \in {j \in Agents(self) : InSeq(j, otherTeam) /\ ~Seen(j)}}
    IN Observed([copied EXCEPT !.st.agentDistances = distances,
                               !.confs = [r \in DOMAIN @ |-> IF r \in hiddenRefs THEN None ELSE @[r]]],
                self)

\* GameState.makeObservation; draws[i] is the offset random.choice returns
\* for agent i.  Every write of lines 258-281 goes to the deep copy, so the
\* state the call was made on is left as it was.
makeObservation(self, c, g, index, draws) ==
    Only({LET pos == getPosition(copied, copied.st.agentStates[index])
              distances == [i \in 1..Cardinality(Agents(self)) |->
                              noisyDistance(pos, getPosition(copied, copied.st.agentStates[i - 1]), draws[i - 1])]
              team == IF InSeq(index, self.blueTeam) THEN self.blueTeam ELSE self.redTeam
              otherTeam == IF InSeq(index, self.blueTeam) THEN self.redTeam ELSE self.blueTeam
              Seen(enemy) ==
                  \E k \in 1..Len(team) :
                      manhattanDistance(getPosition(copied, copied.st.agentStates[enemy]),
                                        getPosition(copied, copied.st.agentStates[team[k]])) <= SIGHT_RANGE
          IN Observed([copied EXCEPT !.st.agentDistances = distances,
                                     !.st.agentStates = [i \in DOMAIN @ |->
                                           IF InSeq(i, otherTeam) /\ ~Seen(i)
                                           THEN [@[i] EXCEPT !.configuration = NoRef]
                                           ELSE @[i]]],
                      self) :
            copied \in {deepCopy(World(self, c, g))}})

(***************************************************************************)
(* The state machine                                                       *)
(*                                                                         *)
(* state is the authoritative GameState, obs the state object an agent is  *)
(* looking at (state itself until makeObservation returns a copy), outcome *)
(* how the last call ended.  After every call the     *)
(* objects no state refers to are reclaimed and the remaining ones are     *)
(* renumbered (object identities are not observable): agent i's start is   *)
(* object i + 1, a configuration of state that is not a start is object    *)
(* n + 1 + i, one that only obs refers to is object 2n + 1 + i; the food   *)
(* of the initial state stays grid RootGrid, food that state copied is     *)
(* grid 1 and food that obs copied grid 2.                                 *)
(***************************************************************************)
Renumber(st, o, c, g) ==
    LET n == Cardinality(Agents(st))
        StateRef(i) == IF st.agentStates[i].configuration = st.agentStates[i].start
                       THEN i + 1 ELSE n + 1 + i
        ObsRef(i) == IF o.agentStates[i].configuration = NoRef THEN NoRef
                     ELSE IF o.agentStates[i].configuration = o.agentStates[i].start THEN i + 1
                     ELSE IF o.agentStates[i].configuration = st.agentStates[i].configuration
                          THEN StateRef(i)
                     ELSE 2 * n + 1 + i
        StateGrid == IF st.food = RootGrid THEN RootGrid ELSE 1
        ObsGrid == IF o.food = st.food THEN StateGrid ELSE 2
    IN [st |-> [st EXCEPT !.food = StateGrid,
                          !.agentStates = [i \in DOMAIN @ |->
                                [@[i] EXCEPT !.configuration = StateRef(i), !.start = i + 1]]],
        obs |-> [o EXCEPT !.food = ObsGrid,
                          !.agentStates = [i \in DOMAIN @ |->
                                [@[i] EXCEPT !.configuration = ObsRef(i), !.start = i + 1]]],
        confs |-> [r \in Refs |->
                    IF r \in 1..n THEN c[st.agentStates[r - 1].start]
                    ELSE IF r \in (n + 1)..(2 * n) /\ StateRef(r - n - 1) = r
                         THEN c[st.agentStates[r - n - 1].configuration]
                    ELSE IF r \in (2 * n + 1)..(3 * n) /\ ObsRef(r - 2 * n - 1) = r
                         THEN c[o.agentStates[r - 2 * n - 1].configuration]
                    ELSE None],
        grids |-> [r \in GridRefs |->
                    IF r = RootGrid THEN g[RootGrid]
                    ELSE IF r = 1 /\ StateGrid = 1 THEN g[st.food]
                    ELSE IF r = 2 /\ ObsGrid = 2 THEN g[o.food]
                    ELSE NoGrid]]

(***************************************************************************)
(* CaptureRules and the turn loop                                          *)
(*                                                                         *)
(* game is the Game object CaptureRules.newGame returns, with the rules    *)
(* object it belongs to: its length, its move history, its over flag, the  *)
(* agent that moves next and the food counts newGame remembers.  The loop  *)
(* of Game.run appends the move to the history, replaces state by its      *)
(* successor and calls process, agent after agent from the starter on.     *)
(***************************************************************************)
\* CaptureRules.newGame; starter is what random.randint(0, 1) returns
newGame(l, length, starter) ==
    [length |-> length,
     moveHistory |-> <<>>,
     gameOver |-> FALSE,
     startingIndex |-> starter,
     agentIndex |-> starter,
     rules |-> [quiet |-> FALSE,
                initBlueFood |-> Cardinality(halfGrid(l, l.food, FALSE)),
                initRedFood |-> Cardinality(halfGrid(l, l.food, TRUE))]]

\* Variant of process that ends the match one move late
processOneLate(st, g) ==
    LET timed == IF Len(g.moveHistory) = g.length + 1 THEN [st EXCEPT !.win = TRUE] ELSE st
    IN [st |-> timed,
        game |-> IF timed.win THEN [g EXCEPT !.gameOver = TRUE] ELSE g]

\* CaptureRules.process, lines 372-377: the state is marked won when the
\* history is as long as the match, and the game is over when the state is
\* won (the logging that follows changes nothing)
process(st, g) ==
    LET timed == IF Len(g.moveHistory) = g.length THEN [st EXCEPT !.win = TRUE] ELSE st
    IN [st |-> timed,
        game |-> IF timed.win THEN [g EXCEPT !.gameOver = TRUE] ELSE g]

Max(a, b) == IF a >= b THEN a ELSE b

Min(a, b) == IF a <= b THEN a ELSE b

\* CaptureRules.getProgress: err names the exception the call ends in
\* ("none" when it returns), and
\* value is the result as the fraction <<numerator, denominator>>.  Line 397
\* reads moveHistory of the rules object, which has no such attribute.
getProgress(l, g, w) ==
    LET self == g.rules
        blueLeft == Cardinality(getBlueFood(l, w))
        redLeft == Cardinality(getRedFood(l, w))
    IN IF self.initBlueFood = 0 \/ self.initRedFood = 0
       THEN [err |-> "ZeroDivisionError", value |-> None]
       ELSE IF "moveHistory" \notin DOMAIN self
       THEN [err |-> "AttributeError", value |-> None]
       ELSE LET den == 4 * self.initBlueFood * self.initRedFood * g.length
                blue == (self.initBlueFood - blueLeft) * self.initRedFood
                red == (self.initRedFood - redLeft) * self.initBlueFood
                num == 3 * g.length * Max(red, blue)
                         + Len(self.moveHistory) * self.initBlueFood * self.initRedFood
            IN [err |-> "none", value |-> <<Min(Max(num, 0), den), den>>]

\* CaptureRules.agentCrash: the score is overwritten in the game's state
agentCrash(st, agentIndex) ==
    [st EXCEPT !.score = IF agentIndex % 2 = 0 THEN -1 ELSE 1]

\* replayGame, lines 757-761, for one recorded action on the game g that
\* its newGame call returned: the action goes through generateSuccessor and
\* the successor through process; the history of g is not written.  When
\* generateSuccessor raises, err is set and the state is not replaced.
replayStep(l, g, w, action) ==
    Only({IF next.err THEN [w |-> [w EXCEPT !.err = TRUE], game |-> g]
          ELSE Only({Only({[w |-> World(p.st, r.confs, r.grids), game |-> p.game] :
                             p \in {process(r.st, g)}}) :
                       r \in {Renumber(next.st, next.st, next.confs, next.grids)}}) :
            next \in {generateSuccessor(l, w.st, w.confs, w.grids, action[1], action[2])}})

\* replayGame, lines 755-761: the loop over the recording; an action that
\* raises ends it, and the rest of the recording is not applied
RECURSIVE replayRun(_, _, _, _)
replayRun(l, g, w, actions) ==
    IF actions = <<>> \/ w.err THEN w
    ELSE Only({replayRun(l, x.game, x.w, Tail(actions)) :
                 x \in {replayStep(l, g, w, Head(actions))}})

\* replayGame: CaptureRules.newGame followed by the replay of a recorded
\* opening: the state of a match of `length' moves after the moves of
\* `actions'.  A recording with an action that raises leaves no state.
\* (The Game object replayGame builds is local to it and is not kept;
\* answer is what the last query of the rules returned.)
ReplayGame(l, actions, length) ==
    \E starter \in 0..1 :
    \E w \in {replayRun(l, newGame(l, length, starter),
                        World(initialize(l, length), InitialConfs(l), InitialGrids(l)),
                        actions)} :
        /\ ~w.err
        /\ layout = l
        /\ confs = w.confs
        /\ grids = w.grids
        /\ state = w.st
        /\ outcome = "none"
        /\ obs = w.st
        /\ game = None
        /\ answer = None

\* A recorded opening on LayoutDuel: the red agent walks onto the capsule
\* at <<5, 2>>, then the blue agent stands still until its scared timer is
\* about to run out
ScaredOpening ==
    <<<<0, "East">>, <<0, "East">>>> \o [k \in 1..(SCARED_TIME - 2) |-> <<1, "Stop">>]

Matches ==
    {[layout |-> l, actions |-> <<>>] : l \in Layouts}
        \cup {[layout |-> LayoutDuel, actions |-> ScaredOpening]}

Init ==
    \E m \in Matches :
        ReplayGame(m.layout, m.actions, Len(m.actions) + MatchLength - MaxOvertime)

InitObs == ReplayGame(LayoutCorridor, <<>>, MatchLengthObs - MaxOvertime)

\* state.generateSuccessor(agentIndex, action) returns and the match goes on
\* from the successor; the observation the agent decided on is dropped.
\* The call has no condition on the time left; successors are followed
\* until the time is MaxOvertime below 0.
GenerateSuccessor(agentIndex, action) ==
    /\ outcome # "error"
    /\ state.timeleft > 0 - MaxOvertime
    /\ \E w \in {generateSuccessor(layout, state, confs, grids, agentIndex, action)} :
       /\ ~w.err
       /\ \E r \in {Renumber(w.st, w.st, w.confs, w.grids)} :
          /\ state' = r.st
          /\ obs' = r.obs
          /\ confs' = r.confs
          /\ grids' = r.grids
    /\ outcome' = "ok"
    /\ UNCHANGED <<layout, game, answer>>

\* state.generateSuccessor(agentIndex, action) raises: nothing is returned
\* and the caller is left with the state it had; the exception is not
\* caught, which ends the run
GenerateSuccessorRaises(agentIndex, action) ==
    /\ outcome # "error"
    /\ \E w \in {generateSuccessor(layout, state, confs, grids, agentIndex, action)} :
       /\ w.err
       /\ \E r \in {Renumber(state, obs, w.confs, w.grids)} :
          /\ state' = r.st
          /\ obs' = r.obs
          /\ confs' = r.confs
          /\ grids' = r.grids
    /\ outcome' = "error"
    /\ UNCHANGED <<layout, game, answer>>

\* state.makeObservation(index) returns the observation obs, once per turn;
\* the match goes on from the state object the call was made on, as the
\* call left it
MakeObservation(index, draws) ==
    /\ outcome \notin {"error", "observed"}
    /\ \E w \in {makeObservation(state, confs, grids, index, draws)} :
       \E r \in {Renumber(w.self, w.st, w.confs, w.grids)} :
          /\ state' = r.st
          /\ obs' = r.obs
          /\ confs' = r.confs
          /\ grids' = r.grids
    /\ outcome' = "observed"
    /\ UNCHANGED <<layout, game, answer>>

\* AgentRules.placeGhost(state, state.data.agentStates[agentIndex]) is
\* called on the state of the match: the state is changed in place, and so
\* is what an agent sees of it unless it holds a copy that makeObservation
\* returned
PlaceGhost(agentIndex) ==
    /\ outcome # "error"
    /\ \E w \in {placeGhost(World(state, confs, grids), agentIndex)} :
       \E r \in {Renumber(w.st, IF outcome = "observed" THEN obs ELSE w.st,
                          w.confs, w.grids)} :
          /\ state' = r.st
          /\ obs' = r.obs
          /\ confs' = r.confs
          /\ grids' = r.grids
    /\ UNCHANGED <<layout, game, answer, outcome>>

Next ==
    \/ \E i \in Agents(state), a \in Directions : GenerateSuccessor(i, a)
    \/ \E i \in Agents(state), a \in Directions : GenerateSuccessorRaises(i, a)

NextObs ==
    \/ \E i \in Agents(state), a \in Directions : GenerateSuccessor(i, a)
    \/ \E i \in Agents(state), a \in Directions : GenerateSuccessorRaises(i, a)
    \/ \E i \in Agents(state), draws \in [Agents(state) -> SONAR_NOISE_VALUES] : MakeObservation(i, draws)

Spec == Init /\ [][Next]_vars

SpecObs == InitObs /\ [][NextObs]_vars

\* The calls of NextObs together with direct calls of placeGhost, which no
\* caller in the repository makes
NextPlace ==
    \/ NextObs
    \/ \E i \in Agents(state) : PlaceGhost(i)

SpecPlace == InitObs /\ [][NextPlace]_vars

\* runGames: a new game of `length' moves on layout l
NewMatch(l, length, starter) ==
    /\ layout = l
    /\ confs = InitialConfs(l)
    /\ grids = InitialGrids(l)
    /\ state = initialize(l, length)
    /\ outcome = "none"
    /\ obs = initialize(l, length)
    /\ game = newGame(l, length, starter)
    /\ answer = None

\* One turn of the loop: the agent whose turn it is takes a legal action
Turn(action) ==
    /\ outcome \notin {"error", "crashed"}
    /\ ~game.gameOver
    /\ action \in getLegalActions(layout, World(state, confs, grids), game.agentIndex)
    /\ \E w \in {generateSuccessor(layout, state, confs, grids, game.agentIndex, action)} :
       \E p \in {process(w.st, [game EXCEPT !.moveHistory = Append(@, <<game.agentIndex, action>>)])} :
       \E r \in {Renumber(p.st, p.st, w.confs, w.grids)} :
          /\ state' = r.st
          /\ obs' = r.obs
          /\ confs' = r.confs
          /\ grids' = r.grids
          /\ game' = [p.game EXCEPT !.agentIndex = (@ + 1) % Cardinality(Agents(state))]
    /\ outcome' = "ok"
    /\ answer' = None
    /\ UNCHANGED layout

\* The loop gives up on an agent that failed: agentCrash, and the game ends
Crash(agentIndex) ==
    /\ outcome \notin {"error", "crashed"}
    /\ ~game.gameOver
    /\ state' = agentCrash(state, agentIndex)
    /\ obs' = agentCrash(state, agentIndex)
    /\ game' = [game EXCEPT !.gameOver = TRUE]
    /\ outcome' = "crashed"
    /\ answer' = None
    /\ UNCHANGED <<layout, confs, grids>>

\* rules.getProgress(game) is asked between two turns
GetProgress ==
    /\ outcome \notin {"error", "crashed", "progress"}
    /\ answer' = getProgress(layout, game, World(state, confs, grids))
    /\ outcome' = "progress"
    /\ UNCHANGED <<layout, confs, grids, state, obs, game>>

\* The agent whose turn it is gets its observation before it decides
Observe(draws) ==
    /\ ~game.gameOver
    /\ MakeObservation(game.agentIndex, draws)

\* state.getDistanceProb(trueDistance, noisyDistance) is asked
AskDistanceProb(trueDistance, noisy) ==
    /\ outcome = "none"
    /\ answer' = [trueDistance |-> trueDistance,
                  noisyDistance |-> noisy,
                  prob |-> getDistanceProb(trueDistance, noisy)]
    /\ outcome' = "answered"
    /\ UNCHANGED <<layout, confs, grids, state, obs, game>>

\* the offsets one observation can draw: random.choice is called once per
\* agent (lines 65-66, 264), each call independent of the others
AllDraws(st) == [Agents(st) -> SONAR_NOISE_VALUES]

TrueDistances == 0..MaxDistance

NoisyDistances == (0 - SONAR_NOISE_RANGE)..(MaxDistance + SONAR_NOISE_RANGE)

InitMatch ==
    \E l \in Layouts, length \in 1..MatchLengthRun, starter \in 0..1 : NewMatch(l, length, starter)

NextMatch ==
    \/ \E a \in Directions : Turn(a)
    \/ \E i \in Agents(state) : Crash(i)
    \/ GetProgress

SpecMatch == InitMatch /\ [][NextMatch]_vars

InitReplay == \E starter \in 0..1 : NewMatch(LayoutDuel, MatchLengthRun, starter)

NextReplay ==
    \/ \E a \in Directions : Turn(a)
    \/ \E draws \in AllDraws(state) : Observe(draws)

SpecReplay == InitReplay /\ [][NextReplay]_vars

\* The rules on the layouts of Init and on the layout that has food and
\* capsules next to the midline
InitMidline ==
    \E l \in Layouts \cup {LayoutMidline} : ReplayGame(l, <<>>, MatchLength - MaxOvertime)

SpecMidline == InitMidline /\ [][Next]_vars

\* The rules on the layout with a wall inside, from the start and from the
\* scared opening
InitWalled ==
    \E actions \in {<<>>, ScaredOpening} :
        ReplayGame(LayoutWalled, actions, Len(actions) + MatchLength - MaxOvertime)

SpecWalled == InitWalled /\ [][Next]_vars

InitSight == ReplayGame(LayoutSight, <<>>, MatchLengthSight - MaxOvertime)

\* (MakeObservation is not enabled on a state an observation was just
\* returned for: its guard is repeated in front of the draws, which are
\* then not enumerated there)
NextSight ==
    \/ \E i \in Agents(state), a \in Directions : GenerateSuccessor(i, a)
    \/ /\ outcome # "observed"
       /\ \E i \in Agents(state), draws \in AllDraws(state) : MakeObservation(i, draws)

SpecSight == InitSight /\ [][NextSight]_vars

NextProb ==
    \/ \E t \in TrueDistances, n \in NoisyDistances : AskDistanceProb(t, n)
    \/ \E i \in Agents(state), a \in Directions : outcome # "answered" /\ GenerateSuccessor(i, a)

SpecProb == InitObs /\ [][NextProb]_vars

(***************************************************************************)
(* Properties                                                              *)
(*                                                                         *)
(* Succ(i, a) is the world state.generateSuccessor(i, a) leaves behind     *)
(* when called on the current state: the successor (or the error flag)     *)
(* and the heap after the call, in which the objects of the state it was   *)
(* called on are still alive.                                              *)
(***************************************************************************)
Succ(i, a) == generateSuccessor(layout, state, confs, grids, i, a)

Now == World(state, confs, grids)

Calls == Agents(state) \X Directions

LegalCalls == {c \in Calls : c[2] \in getLegalActions(layout, Now, c[1])}

IllegalCalls == Calls \ LegalCalls

\* The initial state object of the match: its configurations are the start
\* objects and its food is the grid RootGrid
RootState == initialize(layout, 0)

\* C1: generateSuccessor never changes the state it is called on. For every
\* reachable state and every legal action, the food grid, capsule list,
\* positions, roles, timers, score and remaining time read from the state
\* object after the call are what they were before it; and the initial
\* state object still reads as it did at construction after any chain of
\* successors.
C1_SuccessorLeavesInputUnchanged ==
    /\ \A c \in LegalCalls :
          \A w \in {Succ(c[1], c[2])} :
              Value(state, w.confs, w.grids) = Value(state, confs, grids)
    /\ Value(RootState, confs, grids)
          = Value(RootState, InitialConfs(layout), InitialGrids(layout))

\* C1 witness: a state produced by a step that ate food and so had to write
\* to a food grid while its predecessor was alive, in a match in which an
\* agent has also been sent back to its start object
C1_Witness ==
    /\ outcome = "ok"
    /\ state.foodEaten # None
    /\ state.food # RootGrid
    /\ \E i \in Agents(state) :
          /\ state.agentMoved # i
          /\ state.agentStates[i].configuration = state.agentStates[i].start

\* C2: an action that is not in getLegalActions ends generateSuccessor and
\* applyAction in an error: no successor exists and the state it was called
\* on is unchanged.
C2_IllegalActionRaises ==
    \A c \in IllegalCalls :
        /\ \A w \in {Succ(c[1], c[2])} :
              /\ w.err
              /\ Value(state, w.confs, w.grids) = Value(state, confs, grids)
        /\ \A w \in {applyAction(layout, World(GameStateCopy(state), confs, grids), c[2], c[1])} :
              /\ w.err
              /\ w.st = GameStateCopy(state)
              /\ w.confs = confs
              /\ w.grids = grids

\* C2 witness: an illegal call has raised, after the match had moved on
C2_Witness ==
    /\ outcome = "error"
    /\ state.agentMoved # NoAgent
    /\ IllegalCalls # {}

\* C3: food and capsules never reappear. From every reachable state, every
\* successor has at most as much food in each half and at most as many
\* capsules as the state it was made from, and no food cell or capsule the
\* predecessor did not have.
C3_FoodAndCapsulesNeverGrow ==
    \A c \in LegalCalls :
        \A w \in {Succ(c[1], c[2])} :
            /\ Cardinality(getRedFood(layout, w)) >= 0
            /\ Cardinality(getBlueFood(layout, w)) >= 0
            /\ Cardinality(getRedFood(layout, w)) <= Cardinality(getRedFood(layout, Now))
            /\ Cardinality(getBlueFood(layout, w)) <= Cardinality(getBlueFood(layout, Now))
            /\ Len(w.st.capsules) <= Len(state.capsules)
            /\ w.grids[w.st.food] \subseteq grids[state.food]
            /\ \A k \in 1..Len(w.st.capsules) : InSeq(w.st.capsules[k], state.capsules)

\* C3 witness: food has been eaten in both halves and a capsule is gone
C3_Witness ==
    /\ Cardinality(getRedFood(layout, Now)) < Cardinality(halfGrid(layout, layout.food, TRUE))
    /\ Cardinality(getBlueFood(layout, Now)) < Cardinality(halfGrid(layout, layout.food, FALSE))
    /\ Len(state.capsules) < Len(layout.capsules)

\* The teams of a state are the ones initialize computes from the layout:
\* agent i is red iff its start x is left of floor(width / 2), and the two
\* index lists partition the agent indices accordingly.
TeamsAsInitialized(st) ==
    LET StartsRed(i) == layout.agentPositions[i + 1][1] < layout.width \div 2
    IN /\ \A i \in Agents(st) : isOnRedTeam(st, i) = StartsRed(i)
       /\ {getRedTeamIndices(st)[k] : k \in 1..Len(getRedTeamIndices(st))}
            = {i \in Agents(st) : StartsRed(i)}
       /\ {getBlueTeamIndices(st)[k] : k \in 1..Len(getBlueTeamIndices(st))}
            = {i \in Agents(st) : ~StartsRed(i)}
       /\ Len(getRedTeamIndices(st)) + Len(getBlueTeamIndices(st)) = Cardinality(Agents(st))

\* C4: team membership is fixed at initialization. In every state reached by
\* generateSuccessor and makeObservation calls, in every observation and in
\* every successor, agent i is on the red team iff its start x is left of
\* floor(width / 2), and the red and blue index lists are a disjoint
\* partition of all agent indices, whatever the roles and captures.
C4_TeamMembershipFixed ==
    /\ TeamsAsInitialized(state)
    /\ TeamsAsInitialized(obs)
    /\ \A c \in LegalCalls : \A w \in {Succ(c[1], c[2])} : TeamsAsInitialized(w.st)

\* C4 witness: an observation taken on LayoutCorridor after the red agent
\* crossed to the blue half, went on offense there and was captured by the
\* blue agent that walked two cells to meet it: the red agent made a move
\* and yet holds its start object again
C4_Witness ==
    /\ outcome = "observed"
    /\ state.timeleft = MatchLengthObs - MaxOvertime - 3
    /\ state.agentMoved = 1
    /\ getPosition(Now, state.agentStates[1]) = <<4, 1>>
    /\ state.agentStates[0].configuration = state.agentStates[0].start
    /\ ~state.agentStates[0].isPacman
    /\ TeamsAsInitialized(obs)

(***************************************************************************)
(* Helpers of the step properties                                          *)
(***************************************************************************)
\* The world after applyAction alone, before death is resolved
Moved(i, a) == applyAction(layout, World(GameStateCopy(state), confs, grids), a, i)

Pos(w, j) == getPosition(w, w.st.agentStates[j])

StartPos(w, j) == w.confs[w.st.agentStates[j].start]

Opposing(j, k) == state.teams[j] # state.teams[k]

Opponents(j) == {k \in Agents(state) : Opposing(j, k)}

\* the agents checkDeath(w, i) sends back to their start
CapturedIn(w, i) ==
    {j \in Agents(w.st) : checkDeath(w, i).st.agentStates[j] # w.st.agentStates[j]}

\* the food of the half that opposes agent i's team
OpposingFood(w, i) ==
    IF isOnRedTeam(w.st, i) THEN getBlueFood(layout, w) ELSE getRedFood(layout, w)

\* C5 (as amended): the win flag of a successor is set iff the acting agent
\* ate a pellet in that step and exactly MIN_FOOD = 2 pellets are left in the
\* half opposing the acting agent's team; it is never set by a step that
\* leaves 0 or 1 there, and a half that starts with 2 or fewer pellets never
\* sets it by being at 2.
C5_WinSetWhenEatingLeavesTwo ==
    \A c \in LegalCalls :
        \A w \in {Succ(c[1], c[2])} :
            /\ w.st.win <=> (w.st.foodEaten # None
                               /\ Cardinality(OpposingFood(w, c[1])) = MIN_FOOD)
            /\ Cardinality(OpposingFood(w, c[1])) \in {0, 1} => ~w.st.win

\* C5 witness: a step has set the win flag
C5_Witness ==
    /\ outcome = "ok"
    /\ state.win
    /\ state.foodEaten # None

\* C5 as claimed: in every successor the win flag is set iff the food of
\* some half counts exactly 2
C5_Original ==
    \A c \in LegalCalls :
        \A w \in {Succ(c[1], c[2])} :
            w.st.win <=> (Cardinality(getRedFood(layout, w)) = MIN_FOOD
                            \/ Cardinality(getBlueFood(layout, w)) = MIN_FOOD)

\* C6: when an agent that is on offense moves onto an enemy-half cell that
\* holds food, the successor's food is the predecessor's without that cell,
\* the enemy half has exactly one pellet less, the score is the
\* predecessor's + 1 for a red mover and - 1 for a blue one, and the
\* eaten-food marker is that cell; when the mover is not on offense or its
\* target cell holds no food, the food grid is unchanged and the marker is
\* none.
C6_EatingFood ==
    \A c \in LegalCalls :
        \A m \in {Moved(c[1], c[2])} :
            \A w \in {Succ(c[1], c[2])} :
                LET i == c[1]
                    target == Pos(m, i)
                    wasOffense == state.agentStates[i].isPacman
                    hadFood == target \in grids[state.food]
                    enemyHalf == isRed(layout, target) # isOnRedTeam(state, i)
                IN /\ (wasOffense /\ hadFood /\ enemyHalf) =>
                        /\ w.grids[w.st.food] = grids[state.food] \ {target}
                        /\ Cardinality(OpposingFood(w, i)) = Cardinality(OpposingFood(Now, i)) - 1
                        /\ w.st.score = state.score + (IF isOnRedTeam(state, i) THEN 1 ELSE -1)
                        /\ w.st.foodEaten = target
                   /\ ~(wasOffense /\ hadFood) =>
                        /\ w.grids[w.st.food] = grids[state.food]
                        /\ w.st.foodEaten = None

\* C6 witness: a blue agent on offense has just eaten a pellet of the red
\* half, after the red team had eaten one of the blue half
C6_Witness ==
    /\ outcome = "ok"
    /\ state.foodEaten # None
    /\ ~isOnRedTeam(state, state.agentMoved)
    /\ isRed(layout, state.foodEaten)
    /\ Cardinality(getBlueFood(layout, Now)) < Cardinality(halfGrid(layout, layout.food, FALSE))

\* an offense agent p and an opposing defender g stand on one cell after
\* the move of agent i, which is one of the two
Collide(m, i, p, g) ==
    /\ Opposing(p, g)
    /\ i \in {p, g}
    /\ m.st.agentStates[p].isPacman
    /\ ~m.st.agentStates[g].isPacman
    /\ Pos(m, p) = Pos(m, g)

\* the outcome "victim is sent home, the other one stays"
SentHome(m, w, victim, other) ==
    /\ Pos(w, victim) = StartPos(w, victim)
    /\ ~w.st.agentStates[victim].isPacman
    /\ w.st.agentStates[victim].scaredTimer = 0
    /\ Pos(w, other) = Pos(m, other)
    /\ w.st.agentStates[other].isPacman = m.st.agentStates[other].isPacman

\* C7: whenever, after the acting agent's move, an offense agent and an
\* opposing defender whose scared timer is 0 stand on the same cell, one of
\* them being the acting agent, the successor has the offense agent at its
\* start position, on defense, with scared timer 0, and the defender keeps
\* its position and role.
C7_GhostCapturesPacman ==
    \A c \in LegalCalls :
        \A m \in {Moved(c[1], c[2])} :
            \A w \in {Succ(c[1], c[2])} :
                \A p, g \in Agents(state) :
                    (Collide(m, c[1], p, g) /\ m.st.agentStates[g].scaredTimer = 0)
                        => SentHome(m, w, p, g)

\* C7 witness: from this state both kinds of call exist: an offense agent
\* steps onto a defender that is not scared, and a defender that is not
\* scared steps onto an offense agent; each sends the offense agent home
C7_Witness ==
    /\ outcome = "ok"
    /\ \E c \in LegalCalls : \E g \in Agents(state) :
          /\ Collide(Moved(c[1], c[2]), c[1], c[1], g)
          /\ Moved(c[1], c[2]).st.agentStates[g].scaredTimer = 0
          /\ SentHome(Moved(c[1], c[2]), Succ(c[1], c[2]), c[1], g)
    /\ \E c \in LegalCalls : \E p \in Agents(state) :
          /\ Collide(Moved(c[1], c[2]), c[1], p, c[1])
          /\ Moved(c[1], c[2]).st.agentStates[c[1]].scaredTimer = 0
          /\ SentHome(Moved(c[1], c[2]), Succ(c[1], c[2]), p, c[1])

\* no third agent stands on the cell of agent j
AloneWith(m, j, k) ==
    \A x \in Agents(m.st) \ {j, k} : Pos(m, x) # Pos(m, j)

\* C8 (as amended): whenever, after the acting agent's move, an offense
\* agent and an opposing defender whose scared timer is above 0 stand on the
\* same cell, one of them being the acting agent, and no third agent stands
\* on that cell, the successor has the defender at its start position with
\* scared timer 0 and on defense, and the offense agent keeps its position
\* and offense role.
C8_PacmanCapturesScaredGhost ==
    \A c \in LegalCalls :
        \A m \in {Moved(c[1], c[2])} :
            \A w \in {Succ(c[1], c[2])} :
                \A p, g \in Agents(state) :
                    (/\ Collide(m, c[1], p, g)
                     /\ m.st.agentStates[g].scaredTimer > 0
                     /\ AloneWith(m, p, g))
                        => (SentHome(m, w, g, p) /\ w.st.agentStates[p].isPacman)

\* C8 witness: from this state both kinds of call exist: an offense agent
\* steps onto a lone scared defender, and a scared defender steps onto a
\* lone offense agent; each sends the defender home
C8_Witness ==
    /\ outcome = "ok"
    /\ \E c \in LegalCalls : \E g \in Agents(state) :
          /\ Collide(Moved(c[1], c[2]), c[1], c[1], g)
          /\ Moved(c[1], c[2]).st.agentStates[g].scaredTimer > 0
          /\ AloneWith(Moved(c[1], c[2]), c[1], g)
          /\ SentHome(Moved(c[1], c[2]), Succ(c[1], c[2]), g, c[1])
    /\ \E c \in LegalCalls : \E p \in Agents(state) :
          /\ Collide(Moved(c[1], c[2]), c[1], p, c[1])
          /\ Moved(c[1], c[2]).st.agentStates[c[1]].scaredTimer > 0
          /\ AloneWith(Moved(c[1], c[2]), p, c[1])
          /\ SentHome(Moved(c[1], c[2]), Succ(c[1], c[2]), c[1], p)

\* C8 as claimed: the same without the condition on third agents
C8_Original ==
    \A c \in LegalCalls :
        \A m \in {Moved(c[1], c[2])} :
            \A w \in {Succ(c[1], c[2])} :
                \A p, g \in Agents(state) :
                    (Collide(m, c[1], p, g) /\ m.st.agentStates[g].scaredTimer > 0)
                        => (SentHome(m, w, g, p) /\ w.st.agentStates[p].isPacman)

\* the calls that are legal in a world w
LegalCallsIn(w) ==
    {c \in Agents(w.st) \X Directions : c[2] \in getLegalActions(layout, w, c[1])}

\* the opponents of agent i that the step of i from the current state does
\* not send home
ScaredBy(i, a) == Opponents(i) \ CapturedIn(Moved(i, a), i)

\* C9 (as amended): a step that eats a capsule leaves the scared timer of
\* every opposing agent that is not captured in that same step at exactly
\* SCARED_TIME = 40; after one more turn that eats no capsule and captures
\* nobody, the timer reads 39 for the one of them that acted in that turn
\* and still 40 for every other one.
C9_CapsuleScaresOpponents ==
    \A c \in LegalCalls :
        \A w \in {Succ(c[1], c[2])} :
            w.st.capsuleEaten # None =>
                \A scared \in {ScaredBy(c[1], c[2])} :
                    /\ \A k \in scared : w.st.agentStates[k].scaredTimer = SCARED_TIME
                    /\ \A d \in LegalCallsIn(w) :
                         \A m2 \in {applyAction(layout, World(GameStateCopy(w.st), w.confs, w.grids), d[2], d[1])} :
                             \A w2 \in {generateSuccessor(layout, w.st, w.confs, w.grids, d[1], d[2])} :
                                 (w2.st.capsuleEaten = None /\ CapturedIn(m2, d[1]) = {}) =>
                                     \A k \in scared :
                                         w2.st.agentStates[k].scaredTimer
                                             = IF k = d[1] THEN SCARED_TIME - 1 ELSE SCARED_TIME

\* C9 witness: one turn after a capsule was eaten against a team of two,
\* the member that has just acted reads 39 and its team mate reads 40
C9_Witness ==
    /\ outcome = "ok"
    /\ state.capsuleEaten = None
    /\ \E k, x \in Agents(state) :
          /\ k # x
          /\ ~Opposing(k, x)
          /\ state.agentMoved = k
          /\ state.agentStates[k].scaredTimer = SCARED_TIME - 1
          /\ state.agentStates[x].scaredTimer = SCARED_TIME

\* C9 as claimed: the step that eats a capsule leaves every opposing agent
\* at 40, and after one more turn without capsule or capture every one of
\* them reads 39, whichever agent acted
C9_Original ==
    \A c \in LegalCalls :
        \A w \in {Succ(c[1], c[2])} :
            w.st.capsuleEaten # None =>
                /\ \A k \in Opponents(c[1]) : w.st.agentStates[k].scaredTimer = SCARED_TIME
                /\ \A d \in LegalCallsIn(w) :
                     \A m2 \in {applyAction(layout, World(GameStateCopy(w.st), w.confs, w.grids), d[2], d[1])} :
                         \A w2 \in {generateSuccessor(layout, w.st, w.confs, w.grids, d[1], d[2])} :
                             (w2.st.capsuleEaten = None /\ CapturedIn(m2, d[1]) = {}) =>
                                 \A k \in Opponents(c[1]) :
                                     w2.st.agentStates[k].scaredTimer = SCARED_TIME - 1

\* C10 as claimed: when an agent that is on offense moves onto a cell that
\* holds a capsule, whatever the column of the cell (the column
\* x = floor(width / 2) included), the successor's capsule list lacks that
\* cell, the eaten-capsule marker is that cell and every agent of the
\* opposing team has scared timer 40.
C10_EatingCapsule ==
    \A c \in LegalCalls :
        \A m \in {Moved(c[1], c[2])} :
            \A w \in {Succ(c[1], c[2])} :
                LET i == c[1]
                    target == Pos(m, i)
                    wasOffense == state.agentStates[i].isPacman
                    hadCapsule == InSeq(target, state.capsules)
                IN (wasOffense /\ hadCapsule) =>
                        /\ ~InSeq(target, w.st.capsules)
                        /\ w.st.capsuleEaten = target
                        /\ \A k \in Opponents(i) : w.st.agentStates[k].scaredTimer = SCARED_TIME

\* C11: after every generateSuccessor step from the initial state, every
\* agent's role matches its position: it is on offense iff its team and the
\* red-half predicate of its current position disagree. This holds for the
\* acting agent, for agents sent to their start by a capture and for agents
\* that did not move.
C11_RoleMatchesPosition ==
    \A i \in Agents(state) :
        state.agentStates[i].isPacman
            = (isOnRedTeam(state, i) # isRed(layout, Pos(Now, i)))

\* C11 witness: on LayoutTrio the red agent has just eaten the capsule on
\* the cell of blue agent 1, which went back to its start object with timer
\* 0 while its team mate, which did not move, is scared; the red agent is
\* on offense
C11_Witness ==
    /\ layout = LayoutTrio
    /\ outcome = "ok"
    /\ state.agentMoved = 0
    /\ state.capsuleEaten # None
    /\ state.agentStates[0].isPacman
    /\ state.agentStates[1].configuration = state.agentStates[1].start
    /\ state.agentStates[1].scaredTimer = 0
    /\ state.agentStates[2].scaredTimer = SCARED_TIME

\* the observation agent `index' gets of the current state
Observation(index, draws) == makeObservation(state, confs, grids, index, draws)

\* C12: makeObservation(index) redacts exactly the unseen opponents. In the
\* returned state the position of an agent of the team opposing the
\* observer is none iff every agent of the observer's team is at Manhattan
\* distance > 5 from it; positions of the observer's team are never
\* redacted, positions that are not redacted are the true ones, and food,
\* capsules, score, roles and timers are those of the observed state.
\* The calls are those on the current state, whatever offsets they draw;
\* the state an observation was returned for is the state it was asked
\* of, so the calls are not asked a second time there, and the observation
\* that was returned is compared with the state as it is.
C12_ObservationRedactsUnseen ==
    /\ outcome # "observed" =>
          \A index \in Agents(state) : \A draws \in AllDraws(state) :
              \A w \in {Observation(index, draws)} :
                  /\ \A j \in Agents(state) :
                        LET hidden == w.st.agentStates[j].configuration = NoRef
                            unseen == \A t \in Agents(state) \ Opponents(index) :
                                          manhattanDistance(Pos(Now, j), Pos(Now, t)) > SIGHT_RANGE
                        IN /\ hidden <=> (Opposing(index, j) /\ unseen)
                           /\ ~hidden => Pos(w, j) = Pos(Now, j)
                           /\ w.st.agentStates[j].isPacman = state.agentStates[j].isPacman
                           /\ w.st.agentStates[j].scaredTimer = state.agentStates[j].scaredTimer
                  /\ w.grids[w.st.food] = grids[state.food]
                  /\ w.st.capsules = state.capsules
                  /\ w.st.score = state.score
    /\ outcome = "observed" =>
          /\ \A j \in Agents(state) :
                /\ obs.agentStates[j].configuration # NoRef =>
                      confs[obs.agentStates[j].configuration] = Pos(Now, j)
                /\ obs.agentStates[j].isPacman = state.agentStates[j].isPacman
                /\ obs.agentStates[j].scaredTimer = state.agentStates[j].scaredTimer
          /\ grids[obs.food] = grids[state.food]
          /\ obs.capsules = state.capsules
          /\ obs.score = state.score

\* C12 witness: the blue agent of LayoutSight has observed after a move:
\* one red agent, more than 5 away, is redacted and the other one is not
C12_Witness ==
    /\ outcome = "observed"
    /\ state.agentMoved # NoAgent
    /\ obs.agentStates[0].configuration = NoRef
    /\ obs.agentStates[1].configuration # NoRef
    /\ obs.agentStates[2].configuration # NoRef

\* C13: no agent position is none in the authoritative state. In every
\* state reached by generateSuccessor steps with makeObservation calls in
\* between, every agent of the state has a position, and a makeObservation
\* call leaves the state it is called on as it was: the redaction is in the
\* returned copy only.
C13_AuthoritativePositionsKnown ==
    /\ \A i \in Agents(state) :
          /\ state.agentStates[i].configuration # NoRef
          /\ confs[state.agentStates[i].configuration] # None
    /\ outcome # "observed" =>
          \A index \in Agents(state) : \A draws \in AllDraws(state) :
              \A w \in {Observation(index, draws)} :
                  /\ w.self.agentDistances = state.agentDistances
                  /\ \A i \in Agents(state) : w.self.agentStates[i] = state.agentStates[i]
                  /\ Value(w.self, w.confs, w.grids) = Value(state, confs, grids)
                  /\ Value(state, w.confs, w.grids) = Value(state, confs, grids)
                  /\ \A i \in Agents(state) : w.confs[state.agentStates[i].configuration] # None

\* C13 witness: an observation with a redacted opponent has been returned
\* for a state that a step produced, and the state still has the position
C13_Witness ==
    /\ outcome = "observed"
    /\ state.agentMoved # NoAgent
    /\ \E j \in Agents(state) :
          /\ obs.agentStates[j].configuration = NoRef
          /\ state.agentStates[j].configuration # NoRef
          /\ Pos(Now, j) # None

\* C14: getDistanceProb(t, n) is 1/13 for all integers t, n with n - t in
\* [-6, 6] and 0 otherwise; so for every t exactly 13 values of n have
\* probability 1/13 (the values sum to 1), and every noisy distance that
\* makeObservation can draw for a true distance has probability 1/13.
C14_DistanceProb ==
    /\ outcome = "answered" =>
          answer.prob = IF answer.noisyDistance - answer.trueDistance \in (-6)..6
                        THEN <<1, 13>> ELSE <<0, 1>>
    /\ \A t \in TrueDistances :
          /\ Cardinality({n \in NoisyDistances : getDistanceProb(t, n) = <<1, 13>>}) = 13
          /\ \A n \in NoisyDistances : getDistanceProb(t, n) \in {<<1, 13>>, <<0, 1>>}
    /\ outcome # "answered" =>
          \A index \in Agents(state) : \A draws \in AllDraws(state) :
              \A w \in {Observation(index, draws)} :
                  \A i \in Agents(state) :
                      getDistanceProb(manhattanDistance(Pos(Now, index), Pos(Now, i)),
                                      w.st.agentDistances[i + 1]) = <<1, 13>>

\* C14 witness: the probability of the smallest noisy distance of a true
\* distance, a negative number, has been asked and is 1/13
C14_Witness ==
    /\ outcome = "answered"
    /\ answer.noisyDistance - answer.trueDistance = -6
    /\ answer.noisyDistance < 0
    /\ answer.prob = <<1, 13>>

\* the state a replay of the game's history ends in, when newGame draws
\* `starter' in the replay
Replayed(starter) ==
    replayRun(layout, newGame(layout, game.length, starter),
              World(initialize(layout, game.length), InitialConfs(layout), InitialGrids(layout)),
              game.moveHistory)

\* C15: the transition is deterministic. The state a match has reached
\* through its turns, whatever the starting team drawn and whatever noisy
\* distances the observations in between drew, is the state that feeding
\* the same (agentIndex, action) sequence through generateSuccessor from the
\* same layout reaches, whatever the replay draws: same food, capsules,
\* positions, starts, roles, timers, remaining time, score, markers, win flag
\* and teams, and no noisy distance in either.  The two states are compared
\* in full; the replay's state is taken as the rules of the match process
\* it (process sets the win flag of the last move of a match from the
\* history of the match, which a replay does not write).
C15_SameActionsSameState ==
    \A starter \in 0..1 : \A r \in {Replayed(starter)} :
        /\ ~r.err
        /\ \A p \in {process(r.st, game)} :
              /\ Value(state, confs, grids) = Value(p.st, r.confs, r.grids)
              /\ state.win = p.st.win
        /\ Len(game.moveHistory) < game.length => state.win = r.st.win
        /\ state.score = r.st.score
        /\ state.scoreChange = r.st.scoreChange
        /\ state.agentDistances = r.st.agentDistances
        /\ state.agentDistances = <<>>

\* C15 witness: an agent has been given a noisy observation of the state
\* three turns into the match, in which a capsule has just been eaten
C15_Witness ==
    /\ outcome = "observed"
    /\ Len(game.moveHistory) = 3
    /\ state.capsuleEaten # None
    /\ obs.agentDistances # <<>>
    /\ state.agentDistances = <<>>

\* C16: every match terminates. For every match length L >= 1 and every
\* choice of legal actions in the turn loop, process has marked the match
\* over once L moves are made; it marks it over earlier only in a turn whose
\* successor has the win flag set by consumption; the remaining time is L
\* minus the number of moves made, and above 0 while the match is running,
\* in which case the agent whose turn it is has a legal action.
C16_MatchEndsByLength ==
    LET moves == Len(game.moveHistory)
    IN /\ game.length >= 1
       /\ moves <= game.length
       /\ state.timeleft = game.length - moves
       /\ state.timeleft >= 0
       /\ moves = game.length => game.gameOver
       /\ ~game.gameOver =>
             /\ state.timeleft > 0
             /\ getLegalActions(layout, Now, game.agentIndex) # {}
       /\ (game.gameOver /\ moves < game.length /\ outcome # "crashed") =>
             /\ state.win
             /\ state.foodEaten # None
             /\ Cardinality(OpposingFood(Now, state.agentMoved)) = MIN_FOOD

\* C16 witness: a match of the longest length has been played to its last
\* move without a win by consumption, and process has marked it over
C16_Witness ==
    /\ outcome = "ok"
    /\ game.length = MatchLengthRun
    /\ Len(game.moveHistory) = game.length
    /\ state.timeleft = 0
    /\ state.foodEaten = None
    /\ state.win
    /\ game.gameOver

\* C17 as claimed: agentCrash gives the fixed win to the team opposing the
\* crashed agent. For every agent index i, after agentCrash for agent i the
\* score is exactly -1 if i is on the red team and exactly +1 if it is on
\* the blue team, whatever the score was before.
C17_CrashScoresAgainstTeam ==
    \A i \in Agents(state) :
        agentCrash(state, i).score = IF isOnRedTeam(state, i) THEN -1 ELSE 1

\* C18: an agent that is on defense when it acts does not eat. For every
\* legal action of an agent whose role is defense before the move, the
\* successor has the predecessor's food grid and capsule list, both markers
\* of the successor are none, and the move itself (before captures are
\* scored) scores nothing: the score change that consume writes and that
\* generateSuccessor then adds to the score is 0 after applyAction, also
\* when the target cell lies in the enemy half and holds food or a capsule.
C18_DefenseDoesNotEat ==
    \A c \in LegalCalls :
        ~state.agentStates[c[1]].isPacman =>
            \A m \in {Moved(c[1], c[2])} :
                \A w \in {Succ(c[1], c[2])} :
                    /\ w.grids[w.st.food] = grids[state.food]
                    /\ w.st.capsules = state.capsules
                    /\ w.st.foodEaten = None
                    /\ w.st.capsuleEaten = None
                    /\ m.st.scoreChange = 0
                    /\ m.grids[m.st.food] = grids[state.food]
                    /\ m.st.capsules = state.capsules

\* C18 witness: both agents came as defenders over the midline, the red one
\* onto a cell of the blue half that holds food and the blue one onto a cell
\* of the red half that holds a capsule; both are on offense there, and the
\* pellet and the capsule are still under them
C18_Witness ==
    /\ outcome = "ok"
    /\ layout = LayoutMidline
    /\ state.agentMoved # NoAgent
    /\ state.agentStates[0].isPacman
    /\ Pos(Now, 0) \in grids[state.food]
    /\ ~isRed(layout, Pos(Now, 0))
    /\ state.agentStates[1].isPacman
    /\ \E k \in DOMAIN state.capsules : state.capsules[k] = Pos(Now, 1)
    /\ isRed(layout, Pos(Now, 1))
    /\ state.capsules = layout.capsules
    /\ state.score = 0

\* C19: the start position of an agent is set at initialization and never
\* changes. In every reachable state, and in every successor of it, the start
\* position of every agent is the one the layout gave it, also after a
\* capture has put the agent on its start, after the agent has moved on from
\* there, and after a scared timer has run out and snapped the position.
C19_StartPositionFixed ==
    /\ \A i \in Agents(state) : StartPos(Now, i) = layout.agentPositions[i + 1]
    /\ \A c \in LegalCalls :
           \A w \in {Succ(c[1], c[2])} :
               \A i \in Agents(state) : StartPos(w, i) = layout.agentPositions[i + 1]

\* C19 witness: in the layout of three agents the scared agent 1 was
\* captured (its timer is 0 while its teammate's still runs) and has since
\* moved away from its start
C19_Witness ==
    /\ outcome = "ok"
    /\ layout = LayoutTrio
    /\ state.agentMoved = 1
    /\ state.capsules = <<>>
    /\ state.agentStates[1].scaredTimer = 0
    /\ state.agentStates[2].scaredTimer > 0
    /\ state.agentStates[1].configuration # state.agentStates[1].start
    /\ Pos(Now, 1) # StartPos(Now, 1)

\* C20 as claimed: getProgress never fails and returns a value in [0, 1]. In
\* every state of a match the call ends without an exception and its result
\* is 0.75 * max(fraction of blue-half food eaten, fraction of red-half food
\* eaten) + 0.25 * (moves made / match length), clamped to [0, 1].
C20_ProgressInUnitInterval ==
    \A p \in {getProgress(layout, game, Now)} :
        /\ p.err = "none"
        /\ 0 <= p.value[1]
        /\ p.value[1] <= p.value[2]
        /\ LET initBlue == Cardinality(halfGrid(layout, layout.food, FALSE))
               initRed == Cardinality(halfGrid(layout, layout.food, TRUE))
               blue == (initBlue - Cardinality(getBlueFood(layout, Now))) * initRed
               red == (initRed - Cardinality(getRedFood(layout, Now))) * initBlue
               den == 4 * initBlue * initRed * game.length
               num == 3 * game.length * Max(red, blue)
                        + Len(game.moveHistory) * initBlue * initRed
           IN p.value = <<Min(Max(num, 0), den), den>>

\* C21: generateSuccessor(i, a) counts down the scared timer of the acting
\* agent only. For every legal call the acting agent's timer in the
\* successor is max(0, t - 1), or 0 when a capture of this step sent it
\* home; the timer of every other agent is the predecessor's, except that it
\* is 0 when that agent was captured in this step and SCARED_TIME when the
\* acting agent ate a capsule and that agent is on the opposing team.
C21_OnlyActingTimerCountsDown ==
    \A c \in LegalCalls :
        \A m \in {Moved(c[1], c[2])} :
            \A w \in {Succ(c[1], c[2])} :
                \A captured \in {CapturedIn(m, c[1])} :
                    \A j \in Agents(state) :
                        LET t == state.agentStates[j].scaredTimer
                            timer == w.st.agentStates[j].scaredTimer
                        IN IF j \in captured THEN timer = 0
                           ELSE IF j = c[1] THEN timer = (IF t - 1 > 0 THEN t - 1 ELSE 0)
                           ELSE IF m.st.capsuleEaten # None /\ Opposing(c[1], j)
                                THEN timer = SCARED_TIME
                                ELSE timer = t

\* C21 witness: both blue agents of the layout of three were scared by a
\* capsule; agent 1 has acted since and its timer went down by one, while
\* its teammate's timer still has the full value
C21_Witness ==
    /\ outcome = "ok"
    /\ layout = LayoutTrio
    /\ state.agentMoved = 1
    /\ state.agentStates[0].scaredTimer = 0
    /\ state.agentStates[1].scaredTimer = SCARED_TIME - 1
    /\ state.agentStates[2].scaredTimer = SCARED_TIME

\* an offense agent p and an opposing defender g stand on one cell of w
Overlap(w, p, g) ==
    /\ Opposing(p, g)
    /\ w.st.agentStates[p].isPacman
    /\ ~w.st.agentStates[g].isPacman
    /\ Pos(w, p) = Pos(w, g)

\* agent j is in w where and what it is in the current state
LeftAlone(w, j) ==
    /\ Pos(w, j) = Pos(Now, j)
    /\ w.st.agentStates[j].isPacman = state.agentStates[j].isPacman
    /\ w.st.agentStates[j].scaredTimer = state.agentStates[j].scaredTimer

\* the cells on which checkDeath(m, i) can find agent i: the cell it moved
\* to and, once a capture has sent it home, its start
CellsOf(m, i) == {Pos(m, i), StartPos(m, i)}

\* generateSuccessor(i, a) leaves every teammate of i as it is, and moves an
\* opposing agent only from a cell of agent i to that agent's own start
OnlyActingAgentCollides(i, m, w) ==
    /\ \A j \in Agents(state) \ {i} : ~Opposing(i, j) => LeftAlone(w, j)
    /\ \A j \in Opponents(i) :
          Pos(w, j) # Pos(Now, j) =>
              /\ Pos(w, j) = StartPos(Now, j)
              /\ Pos(Now, j) \in CellsOf(m, i)

KillPoints == 0..MaxKillPoints

\* what checkDeath(m, i) adds to the pending score change when KILL_POINTS
\* has the value killPoints
CaptureScore(killPoints, m, i) ==
    checkDeathWith(killPoints, m, i).st.scoreChange - m.st.scoreChange

\* C23 as claimed: with the kill bonus a constant K >= 0, a capture adjusts
\* the score by K in favour of the capturing agent's team. For every K and
\* every legal call after whose move the acting agent shares a cell with one
\* opposing agent in the complementary role, checkDeath changes the score by
\* + K when the capturing agent is red and by - K when it is blue, the
\* capturing agent being the offense agent if the defender is scared and
\* the defender otherwise.
C23_CaptureScoresForCapturer ==
    \A killPoints \in KillPoints :
        \A c \in LegalCalls :
            \A m \in {Moved(c[1], c[2])} :
                \A p, g \in Agents(state) :
                    (Collide(m, c[1], p, g) /\ AloneWith(m, p, g)) =>
                        LET capturer == IF m.st.agentStates[g].scaredTimer > 0 THEN p ELSE g
                        IN CaptureScore(killPoints, m, c[1]) =
                               IF isOnRedTeam(state, capturer) THEN killPoints ELSE -killPoints

\* the opposing agents checkDeath(m, i) can capture or be captured with:
\* those in the role complementary to the one agent i has after its move,
\* on a cell of agent i
Colliders(m, i) ==
    {j \in Opponents(i) :
        /\ m.st.agentStates[j].isPacman # m.st.agentStates[i].isPacman
        /\ Pos(m, j) \in CellsOf(m, i)}

OwnFood(w, i) ==
    IF isOnRedTeam(w.st, i) THEN getRedFood(layout, w) ELSE getBlueFood(layout, w)

\* C25 as claimed: a team never eats food of its own half. For every legal
\* action of an agent i the half owned by i's team holds as much food in the
\* successor as in the predecessor, and the move changes the score only when
\* a pellet of the opposing half was removed, then by + 1 for a red agent
\* and by - 1 for a blue one; so an offense agent stepping back onto a
\* home-half cell that holds food leaves the food and the score untouched.
C25_NeverEatsOwnFood ==
    \A c \in LegalCalls :
        \A m \in {Moved(c[1], c[2])} :
            \A w \in {Succ(c[1], c[2])} :
                /\ Cardinality(OwnFood(w, c[1])) = Cardinality(OwnFood(Now, c[1]))
                /\ m.st.scoreChange # 0 =>
                      /\ Cardinality(OpposingFood(w, c[1])) = Cardinality(OpposingFood(Now, c[1])) - 1
                      /\ m.st.scoreChange = IF isOnRedTeam(state, c[1]) THEN 1 ELSE -1

\* C26 as claimed: after generateSuccessor(i, a) the acting agent shares no
\* cell with an opposing agent in the complementary role. For every legal
\* call, in the successor no opposing agent stands on the acting agent's
\* cell with one of the two on offense and the other on defense.
C26_NoCollisionLeftForActingAgent ==
    \A c \in LegalCalls :
        \A w \in {Succ(c[1], c[2])} :
            \A j \in Opponents(c[1]) :
                ~(/\ Pos(w, j) = Pos(w, c[1])
                  /\ w.st.agentStates[j].isPacman # w.st.agentStates[c[1]].isPacman)

\* the cells of the board that are not walls
FreeCells == ((0..(layout.width - 1)) \X (0..(layout.height - 1))) \ layout.walls

\* C27: every agent's position is a grid-aligned, in-bounds, non-wall cell.
\* In every reachable state every agent stands on a cell of the board that
\* is not a wall and that its nearest grid point equals; every legal action
\* moves the acting agent by at most one cell onto a non-wall cell, every
\* agent is in the successor where the move left it or on its start, and
\* decrementTimer, snap included, changes no position.
C27_PositionsOnFreeCells ==
    /\ \A j \in Agents(state) :
          /\ Pos(Now, j) \in FreeCells
          /\ nearestPoint(Pos(Now, j)) = Pos(Now, j)
          /\ StartPos(Now, j) \in FreeCells
    /\ \A c \in LegalCalls :
          \A m \in {Moved(c[1], c[2])} :
              \A d \in {checkDeath(m, c[1])} :
                  \A w \in {Succ(c[1], c[2])} :
                      /\ manhattanDistance(Pos(m, c[1]), Pos(Now, c[1])) <= 1
                      /\ Pos(m, c[1]) \in FreeCells
                      /\ \A j \in Agents(state) :
                            /\ Pos(w, j) \in {Pos(m, j), StartPos(Now, j)}
                            /\ Pos(w, j) = Pos(d, j)

\* C27 witness: on the layout with the inner wall, the only two moves since
\* the scared opening were the blue agent's, away from its start; its
\* scared timer went from 2 through 1 to 0, so the snap was performed on the
\* position it has
C27_Witness ==
    /\ outcome = "ok"
    /\ layout = LayoutWalled
    /\ Len(state.capsules) < Len(layout.capsules)
    /\ state.agentMoved = 1
    /\ state.timeleft = MatchLength - MaxOvertime - 2
    /\ state.agentStates[1].scaredTimer = 0
    /\ Pos(Now, 1) # StartPos(Now, 1)
    /\ state.agentStates[0].isPacman

====
